---- MODULE Spec2Model ----
(***************************************************************************)
(* Model of one Plivo streaming connection driven by                       *)
(* PlivoFastAPIStreamingHandler (src/plivo_streaming/fastapi/streaming.py).*)
(* One connection task runs start(); the peer sends frames and may         *)
(* disconnect; application callbacks run in flight and may return, raise   *)
(* or call stop(); an external owner may call stop() at any await point.   *)
(* BaseStreamingHandler (plivo_streaming/base.py) is not among the source  *)
(* files: _process_message, the registry, the send helpers, the accessors  *)
(* and the _trigger_*_callbacks helpers follow spec.md sections 4.1-4.3    *)
(* and 7; the event models they validate against are those of types.py.    *)
(* Spec is the connection with a peer that sends start, media, malformed,  *)
(* unknown and binary frames; SpecMalformed, SpecPlayed, SpecStream and    *)
(* SpecRegistry are the same engine with other peers, with send_checkpoint *)
(* calls and with repeated registrations; SpecDecode is the codec alone.   *)
(* SpecSequence has a peer whose sequence numbers go backwards,            *)
(* SpecRestart an owner that calls start() again after it returned, and    *)
(* SpecLive is the engine under the fairness of its one asyncio task.      *)
(***************************************************************************)
EXTENDS Integers, Sequences, FiniteSets, TLC

\* ---------------------------------------------------------------- bounds
MaxFrames == 2
MaxOverwrites == 1
MaxSends == 1
MaxRestarts == 1

\* ------------------------------------------------------------- vocabulary
\* EventType (types.py:8-15): the five inbound kinds.
EventKinds == {"start", "media", "playedStream", "clearedAudio", "dtmf"}

\* Registry slots: one per inbound kind plus the three lifecycle slots.
Slots == EventKinds \cup {"connected", "disconnected", "error"}

\* What the peer can put on the wire: well-formed frames of a known kind,
\* {"event":"media"} without its media object, a frame with an unmatched
\* discriminator, and a binary message (receive_text cannot return it).
WireKinds == {"start", "media", "badmedia", "unknown", "binary"}

\* The registries explored: every slot filled, no on_error handler, no
\* handler for the start kind, and nothing registered at all.
RegChoices == {Slots, Slots \ {"error"}, Slots \ {"start"}, {}}

NoArg == <<"none", "", 0>>
FrameArg(f) == <<"frame", f.kind, f.id, f.chunk>>
Exc(name, n) == <<"exc", name, n>>
NoCb == [slot |-> "", arg |-> NoArg, ret |-> ""]
Ev(e, s, a, r) == [ev |-> e, slot |-> s, arg |-> a, run |-> r]

VARIABLES
    config,     \* what is fixed for the connection: the policy for unknown
                \* discriminators and whether model validation turns an
                \* integer into a string (pydantic 1) or rejects it (pydantic 2)
    handlers,   \* the callback registry: the handlers held by each slot
    ids,        \* identifiers captured from the start frame, or NoIds
    outbox,     \* texts handed to websocket.send_text, oldest first
    asked,      \* the send_checkpoint calls so far: name and stream id held
    invoked,    \* <<slot, handler>> pairs that have been invoked
    frame,      \* the raw frame handed to the codec on its own
    decoded,    \* what the codec made of it, or NotDecoded
    pc,         \* position of the start() coroutine
    running,    \* self._running
    ws,         \* application side of the socket: connecting/connected/closed
    inbox,      \* frames sent by the peer and not yet read
    sent,       \* number of frames the peer has sent
    chunk,      \* chunk counter of the last media frame the peer sent
    cb,         \* the callback the connection task is awaiting, or NoCb
    reg,        \* slots of the callback registry that hold a handler
    stops,      \* stop() was called "never", "once" or "again" (twice or more)
    stopRaised, \* some stop() call raised to its caller
    stoppedInReceive, \* a stop() came while start() was blocked in receive_text
    trace,      \* the last three events of the connection (accept, read,
                \* disconnect, callback call/return/raise), each with the
                \* running flag at that time
    hist        \* summary of all events so far (see NoHist)

\* Variables no step of start() or stop() changes.
fixedVars == <<config, handlers, frame, decoded>>

vars == <<config, handlers, ids, outbox, asked, invoked, frame, decoded,
          pc, running, ws, inbox, sent, chunk, cb, reg, stops,
          stopRaised, stoppedInReceive, trace, hist>>

\* ----------------------------------------------------------- event history
\* accept: outcome of accept(); disc: a disconnect was reported; calls/ends:
\* invocations and completions per slot; raised: slots whose handler has
\* raised; reads: ids of the frames read; media: chunks handed to on_media;
\* starts: the wire kinds of the start frames read.
NoHist ==
    [accept |-> "none", disc |-> FALSE, runs |-> 0,
     calls |-> [s \in Slots |-> 0], ends |-> [s \in Slots |-> 0],
     raised |-> {}, reads |-> <<>>, seqs |-> <<>>, media |-> <<>>, starts |-> <<>>]

\* The sequenceNumber the peer wrote into its n-th frame: the server counts
\* its frames, and a frame sent as "mediaBehind" carries a number lower than
\* that of every frame the server numbered.
SeqNumber(k, n) == IF k = "mediaBehind" THEN 0 ELSE n

Absorb(h, e) ==
    CASE e.ev = "accept" -> [h EXCEPT !.accept = e.slot]
      [] e.ev = "disc" -> [h EXCEPT !.disc = TRUE]
      [] e.ev = "read" ->
            [h EXCEPT !.reads = Append(@, e.arg[3]),
                      !.seqs = Append(@, SeqNumber(e.arg[2], e.arg[3])),
                      !.starts = IF e.arg[2] \in {"start", "startOther"}
                                 THEN Append(@, e.arg[2]) ELSE @]
      [] e.ev = "call" ->
            [h EXCEPT !.calls[e.slot] = @ + 1,
                      !.media = IF e.slot = "media" THEN Append(@, e.arg[4]) ELSE @]
      [] e.ev = "ret" -> [h EXCEPT !.ends[e.slot] = @ + 1]
      [] e.ev = "raise" ->
            [h EXCEPT !.ends[e.slot] = @ + 1, !.raised = @ \cup {e.slot}]

RECURSIVE AbsorbAll(_, _)
AbsorbAll(h, es) ==
    IF es = <<>> THEN h ELSE AbsorbAll(Absorb(h, Head(es)), Tail(es))

LastThree(tr) == IF Len(tr) <= 3 THEN tr ELSE SubSeq(tr, Len(tr) - 2, Len(tr))

\* tr is trace extended by the events of this step.
Record(tr) ==
    /\ trace' = LastThree(tr)
    /\ hist' = AbsorbAll(hist, SubSeq(tr, Len(trace) + 1, Len(tr)))

\* ------------------------------------------------------- frame codec (4.1)
\* A raw frame as the codec sees it: whether the text is JSON, its event
\* discriminator, how sequenceNumber is written (an integer, a numeric
\* string such as "42", any other string, or not at all) and the state of
\* the other required fields of its kind.
EventFields == EventKinds \cup {"absent", "other"}
SeqForms == {"int", "numstr", "text", "absent"}
BodyForms == {"ok", "absent", "wrong"}
Shapes == [json : BOOLEAN, event : EventFields, seq : SeqForms, body : BodyForms]

WellFormed(k, q) == [json |-> TRUE, event |-> k, seq |-> q, body |-> "ok"]

\* The raw frame behind each thing the peer sends.
Shape(k) ==
    CASE k = "badmedia" -> [WellFormed("media", "int") EXCEPT !.body = "absent"]
      [] k = "notjson" -> [WellFormed("absent", "absent") EXCEPT !.json = FALSE]
      [] k = "nodiscriminator" -> WellFormed("absent", "int")
      [] k = "unknown" -> WellFormed("other", "int")
      [] k = "startOther" -> WellFormed("start", "int")
      [] k = "mediaBehind" -> WellFormed("media", "int")
      [] k = "playedStream" -> WellFormed("playedStream", "numstr")
      [] k = "playedStreamInt" -> WellFormed("playedStream", "int")
      [] OTHER -> WellFormed(k, "int")

UnknownPolicies == {"drop", "report"}
Configs == [unknown : UnknownPolicies, intToStr : BOOLEAN]

\* The empty text.
NoFrame == [json |-> FALSE, event |-> "absent", seq |-> "absent", body |-> "absent"]

NotDecoded == [tag |-> "none", kind |-> "", seq |-> ""]
ParseError == [tag |-> "ParseError", kind |-> "", seq |-> ""]
UnknownEvent == [tag |-> "unknown", kind |-> "", seq |-> ""]
Event(k, q) == [tag |-> "event", kind |-> k, seq |-> q]

\* A field declared int takes an integer, and a numeric string is converted.
IntField(q) == q \in {"int", "numstr"}

\* A field declared str takes a string; an integer is converted or rejected
\* as the validation library in use does.
StrField(q) == q \in {"numstr", "text"} \/ (q = "int" /\ config.intToStr)

\* PlayedStreamEvent declares sequenceNumber: str, the other four int.
SequenceNumberIsInt(k) == k # "playedStream"

\* sequenceNumber as the event carries it after validation.
SeqValue(k, q) ==
    IF SequenceNumberIsInt(k) THEN "int"
    ELSE IF q = "int" THEN "numstr" ELSE q

\* Validation of the required fields of kind k.
FieldsValid(k, w) ==
    /\ w.body = "ok"
    /\ IF SequenceNumberIsInt(k) THEN IntField(w.seq) ELSE StrField(w.seq)

\* Decode of a raw frame: ParseError, the unknown-event signal or an event.
Parse(w) ==
    IF ~w.json \/ w.event = "absent" THEN ParseError
    ELSE IF w.event \notin EventKinds THEN UnknownEvent
    ELSE IF ~FieldsValid(w.event, w) THEN ParseError
    ELSE Event(w.event, SeqValue(w.event, w.seq))

\* Decode of a frame the peer sent: "ParseError", "unknown", or the kind of
\* the decoded event.
Decode(f) ==
    IF Parse(Shape(f.kind)).tag = "event" THEN Parse(Shape(f.kind)).kind
    ELSE Parse(Shape(f.kind)).tag

\* ------------------------------------------------- callback registry (4.2)
HandlerIds == {"A", "B"}

RegisterSlotChains(held, h) == held \cup {h}

\* Registration into a slot: the handler replaces whatever the slot held.
RegisterSlot(held, h) == {h}

\* Begin awaiting the handler in `slot`; `ret` is where start() resumes.
Invoke(slot, arg, ret, run, tr) ==
    /\ pc' = "cb"
    /\ cb' = [slot |-> slot, arg |-> arg, ret |-> ret]
    /\ invoked' = invoked \cup {<<slot, h>> : h \in handlers[slot]}
    /\ Record(Append(tr, Ev("call", slot, arg, run)))

\* Resume start() at `ret` with no callback in flight.
Resume(ret, tr) ==
    /\ pc' = ret
    /\ cb' = NoCb
    /\ invoked' = invoked
    /\ Record(tr)

\* _trigger_error_callbacks(e): on_error if registered, else e is discarded.
TriggerErrorCallbacks(e, ret, tr) ==
    IF "error" \in reg THEN Invoke("error", e, ret, running, tr)
    ELSE Resume(ret, tr)

\* _trigger_connection_callbacks(): on_connected if registered.
TriggerConnectionCallbacks(tr) ==
    IF "connected" \in reg THEN Invoke("connected", NoArg, "loop", running, tr)
    ELSE Resume("loop", tr)

\* _trigger_disconnection_callbacks(): on_disconnected if registered; `run`
\* is the value of the running flag at the call.
TriggerDisconnectionCallbacks(run, tr) ==
    IF "disconnected" \in reg THEN Invoke("disconnected", NoArg, "done", run, tr)
    ELSE Resume("done", tr)

\* dispatch(kind, event): a silent no-op without a handler for the kind.
Dispatch(kind, f, tr) ==
    IF kind \in reg THEN Invoke(kind, FrameArg(f), "loop", running, tr)
    ELSE Resume("loop", tr)

HandlerFaultDisconnectedUnwrapped(slot, arg, ret, tr) ==
    IF slot = "disconnected" THEN Resume("raised", tr)
    ELSE IF slot = "error" THEN Resume(ret, tr)
    ELSE TriggerErrorCallbacks(Exc(slot, arg[3]), ret, tr)

HandlerFaultConnectedUnwrapped(slot, arg, ret, tr) ==
    IF slot = "error" THEN Resume(ret, tr)
    ELSE IF slot = "connected"
         THEN TriggerErrorCallbacks(Exc(slot, arg[3]), "finally", tr)
    ELSE TriggerErrorCallbacks(Exc(slot, arg[3]), ret, tr)

\* A handler invocation raised: every invocation is wrapped, the fault goes
\* to on_error and start() resumes where the handler would have returned;
\* a fault of on_error itself is discarded.
HandlerFault(slot, arg, ret, tr) ==
    IF slot = "error" THEN Resume(ret, tr)
    ELSE TriggerErrorCallbacks(Exc(slot, arg[3]), ret, tr)

\* ----------------------------------------------------- start(), lines 33-59
IsDisconnect(e) == e[2] = "WebSocketDisconnect"

InnerExceptNoDisconnectClause(e, tr) == TriggerErrorCallbacks(e, "loop", tr)

InnerExceptReraisesUnreported(e, tr) ==
    IF IsDisconnect(e) THEN Resume("finally", tr)
    ELSE IF "error" \in reg THEN TriggerErrorCallbacks(e, "loop", tr)
    ELSE Resume("raised", tr)

InnerExceptLeavesLoop(e, tr) ==
    IF IsDisconnect(e) THEN Resume("finally", tr)
    ELSE TriggerErrorCallbacks(e, "finally", tr)

\* Lines 50-53: the except clauses of the receive loop's try.
InnerExcept(e, tr) ==
    IF IsDisconnect(e) THEN Resume("finally", tr)
    ELSE TriggerErrorCallbacks(e, "loop", tr)

OuterExceptInsideLoop(e, tr) == TriggerErrorCallbacks(e, "loop", tr)

\* Lines 55-56: the except clause of the outer try.
OuterExcept(e, tr) == TriggerErrorCallbacks(e, "finally", tr)

NoIds == [stream |-> "", call |-> "", account |-> ""]

\* The identifiers a start frame carries.
StartIds(f) ==
    IF f.kind = "startOther" THEN [stream |-> "S2", call |-> "C2", account |-> "A2"]
    ELSE [stream |-> "S1", call |-> "C1", account |-> "A1"]

CaptureStreamOnly(held, f) ==
    IF Decode(f) = "start" /\ held = NoIds
    THEN [StartIds(f) EXCEPT !.call = "", !.account = ""]
    ELSE held

CaptureOverwrites(held, f) ==
    IF Decode(f) = "start" THEN StartIds(f) ELSE held

\* The identifiers held after frame f: those of the first start frame.
Capture(held, f) ==
    IF Decode(f) = "start" /\ held = NoIds THEN StartIds(f) ELSE held

\* An unmatched discriminator: dropped, or reported to on_error.
UnknownKind(f, tr) ==
    IF config.unknown = "report" THEN InnerExcept(Exc("UnknownEventKind", f.id), tr)
    ELSE Resume("loop", tr)

\* _process_message(message): decode, keep the identifiers of a start
\* event, then dispatch; a ParseError is raised to the receive loop.
ProcessMessage(f, tr) ==
    /\ ids' = Capture(ids, f)
    /\ IF Decode(f) = "ParseError" THEN InnerExcept(Exc("ParseError", f.id), tr)
       ELSE IF Decode(f) = "unknown" THEN UnknownKind(f, tr)
       ELSE Dispatch(Decode(f), f, tr)

LoopCondIgnoresFlag == TRUE

\* Line 46: the condition of the receive loop.
LoopCond == running

FinallyRunningKept == running

\* Line 58: the finally clause clears the running flag.
FinallyRunning == FALSE

\* ------------------------------------------------------ stop(), lines 61-67
CloseFailureUncaught(w) == w = "closed"

\* Lines 64-67: whether a failing close() raises to stop()'s caller; the
\* bare except swallows it.
CloseFailureRaises(w) == FALSE

\* --------------------------------------------------------------- initially
\* The registry in which every slot of r holds one handler.
Registered(r) == [s \in Slots |-> IF s \in r THEN {"A"} ELSE {}]

\* The state after __init__ and the registrations, before start().
Idle(r, c) ==
    /\ config = c
    /\ reg = r
    /\ handlers = Registered(r)
    /\ ids = NoIds
    /\ outbox = <<>>
    /\ asked = <<>>
    /\ invoked = {}
    /\ pc = "init"
    /\ running = FALSE
    /\ ws = "connecting"
    /\ inbox = <<>>
    /\ sent = 0
    /\ chunk = 0
    /\ cb = NoCb
    /\ stops = "never"
    /\ stopRaised = FALSE
    /\ stoppedInReceive = FALSE
    /\ trace = <<>>
    /\ hist = NoHist

\* The same, with nothing handed to the codec on its own.
Fresh(r, c) ==
    /\ Idle(r, c)
    /\ frame = NoFrame
    /\ decoded = NotDecoded

\* The configurations told apart for a peer that sends the frames W: the
\* policy is consulted for an unmatched discriminator only, the conversion
\* for an integer sequenceNumber of a playedStream frame only.
WireConfigs(W) ==
    {c \in Configs : /\ "unknown" \notin W => c.unknown = "drop"
                     /\ "playedStreamInt" \notin W => ~c.intToStr}

Init == \E r \in RegChoices : \E c \in WireConfigs(WireKinds) : Fresh(r, c)

\* ----------------------------------------------------------------- actions
\* Line 38: start() is called and sets the running flag.
Start ==
    /\ pc = "init"
    /\ pc' = "accept"
    /\ running' = TRUE
    /\ UNCHANGED <<ws, inbox, sent, chunk, cb, reg, stops, stopRaised, stoppedInReceive,
                   trace, hist>>
    /\ UNCHANGED <<fixedVars, ids, outbox, asked, invoked>>

AcceptOkSkipsConnected ==
    /\ pc = "accept"
    /\ ws = "connecting"
    /\ ws' = "connected"
    /\ Resume("loop", Append(trace, Ev("accept", "ok", NoArg, running)))
    /\ UNCHANGED <<running, inbox, sent, chunk, reg, stops, stopRaised,
                   stoppedInReceive>>
    /\ UNCHANGED <<fixedVars, ids, outbox, asked>>

\* Lines 42-43: accept() succeeds, then the connection callbacks run.
AcceptOk ==
    /\ pc = "accept"
    /\ ws = "connecting"
    /\ ws' = "connected"
    /\ TriggerConnectionCallbacks(Append(trace, Ev("accept", "ok", NoArg, running)))
    /\ UNCHANGED <<running, inbox, sent, chunk, reg, stops, stopRaised,
                   stoppedInReceive>>
    /\ UNCHANGED <<fixedVars, ids, outbox, asked>>

\* Lines 42, 55-56: accept() raises (always so once the socket was closed).
AcceptFail ==
    /\ pc = "accept"
    /\ OuterExcept(Exc("AcceptFailure", 0),
                   Append(trace, Ev("accept", "fail", NoArg, running)))
    /\ UNCHANGED <<running, ws, inbox, sent, chunk, reg, stops, stopRaised,
                   stoppedInReceive>>
    /\ UNCHANGED <<fixedVars, ids, outbox, asked>>

LoopCheckRunsOnce ==
    /\ pc = "loop"
    /\ pc' = IF LoopCond /\ hist.reads = <<>> THEN "receive" ELSE "finally"
    /\ UNCHANGED <<running, ws, inbox, sent, chunk, cb, reg, stops,
                   stopRaised, stoppedInReceive, trace, hist>>
    /\ UNCHANGED <<fixedVars, ids, outbox, asked, invoked>>

\* Line 46: the loop condition is evaluated.
LoopCheck ==
    /\ pc = "loop"
    /\ pc' = IF LoopCond THEN "receive" ELSE "finally"
    /\ UNCHANGED <<running, ws, inbox, sent, chunk, cb, reg, stops,
                   stopRaised, stoppedInReceive, trace, hist>>
    /\ UNCHANGED <<fixedVars, ids, outbox, asked, invoked>>

ReceiveFrameNotAwaited ==
    /\ pc = "receive"
    /\ inbox # <<>>
    /\ Head(inbox).kind # "binary"
    /\ inbox' = Tail(inbox)
    /\ LET f == Head(inbox)
           tr == Append(trace, Ev("read", "", FrameArg(f), running))
       IN  IF Decode(f) \in reg
           THEN /\ pc' = "loop"
                /\ cb' = [slot |-> Decode(f), arg |-> FrameArg(f), ret |-> "loop"]
                /\ ids' = Capture(ids, f)
                /\ invoked' = invoked
                /\ Record(Append(tr, Ev("call", Decode(f), FrameArg(f), running)))
           ELSE ProcessMessage(f, tr)
    /\ UNCHANGED <<running, ws, sent, chunk, reg, stops, stopRaised,
                   stoppedInReceive>>
    /\ UNCHANGED <<fixedVars, outbox, asked>>

ReceiveFrameReadsTwice ==
    /\ pc = "receive"
    /\ inbox # <<>>
    /\ Head(inbox).kind # "binary"
    /\ LET rest == IF Len(inbox) > 1 THEN Tail(inbox) ELSE inbox
       IN  /\ inbox' = Tail(rest)
           /\ ProcessMessage(Head(rest),
                             Append(trace, Ev("read", "", FrameArg(Head(rest)), running)))
    /\ UNCHANGED <<running, ws, sent, chunk, reg, stops, stopRaised,
                   stoppedInReceive>>
    /\ UNCHANGED <<fixedVars, outbox, asked>>

\* Whether frame f carries a sequenceNumber lower than one read before it.
BehindEarlier(f) ==
    \E j \in 1..Len(hist.seqs) : hist.seqs[j] > SeqNumber(f.kind, f.id)

ReceiveFrameEnforcesOrder ==
    /\ pc = "receive"
    /\ inbox # <<>>
    /\ Head(inbox).kind # "binary"
    /\ inbox' = Tail(inbox)
    /\ LET f == Head(inbox)
           tr == Append(trace, Ev("read", "", FrameArg(f), running))
       IN  IF BehindEarlier(f)
           THEN ids' = ids /\ Resume("finally", tr)
           ELSE ProcessMessage(f, tr)
    /\ UNCHANGED <<running, ws, sent, chunk, reg, stops, stopRaised,
                   stoppedInReceive>>
    /\ UNCHANGED <<fixedVars, outbox, asked>>

ReceiveFrameFaultsUnhandled ==
    /\ pc = "receive"
    /\ inbox # <<>>
    /\ Head(inbox).kind # "binary"
    /\ inbox' = Tail(inbox)
    /\ LET f == Head(inbox)
           tr == Append(trace, Ev("read", "", FrameArg(f), running))
       IN  IF Decode(f) \in EventKinds \ reg
           THEN ids' = Capture(ids, f) /\ InnerExcept(Exc("KeyError", f.id), tr)
           ELSE ProcessMessage(f, tr)
    /\ UNCHANGED <<running, ws, sent, chunk, reg, stops, stopRaised,
                   stoppedInReceive>>
    /\ UNCHANGED <<fixedVars, outbox, asked>>

\* Lines 48-49: receive_text() returns the next text frame, which is
\* processed.
ReceiveFrame ==
    /\ pc = "receive"
    /\ inbox # <<>>
    /\ Head(inbox).kind # "binary"
    /\ inbox' = Tail(inbox)
    /\ ProcessMessage(Head(inbox),
                      Append(trace, Ev("read", "", FrameArg(Head(inbox)), running)))
    /\ UNCHANGED <<running, ws, sent, chunk, reg, stops, stopRaised,
                   stoppedInReceive>>
    /\ UNCHANGED <<fixedVars, outbox, asked>>

\* Lines 48, 52-53: receive_text() raises on a message that is not text.
ReceiveError ==
    /\ pc = "receive"
    /\ inbox # <<>>
    /\ Head(inbox).kind = "binary"
    /\ inbox' = Tail(inbox)
    /\ InnerExcept(Exc("KeyError", Head(inbox).id), trace)
    /\ UNCHANGED <<running, ws, sent, chunk, reg, stops, stopRaised,
                   stoppedInReceive>>
    /\ UNCHANGED <<fixedVars, ids, outbox, asked>>

\* Lines 48, 50-51: receive_text() raises WebSocketDisconnect: every frame
\* was read and the peer has closed its side, or stop() closed the socket.
ReceiveDisconnect ==
    /\ pc = "receive"
    /\ inbox = <<>>
    /\ InnerExcept(Exc("WebSocketDisconnect", 0),
                   Append(trace, Ev("disc", "", NoArg, running)))
    /\ UNCHANGED <<running, ws, inbox, sent, chunk, reg, stops, stopRaised,
                   stoppedInReceive>>
    /\ UNCHANGED <<fixedVars, ids, outbox, asked>>

\* Lines 57-59: the finally clause.
Finally ==
    /\ pc = "finally"
    /\ running' = FinallyRunning
    /\ TriggerDisconnectionCallbacks(running', trace)
    /\ UNCHANGED <<ws, inbox, sent, chunk, reg, stops, stopRaised,
                   stoppedInReceive>>
    /\ UNCHANGED <<fixedVars, ids, outbox, asked>>

\* The awaited callback returns.
CallbackReturn ==
    /\ pc = "cb"
    /\ Resume(cb.ret, Append(trace, Ev("ret", cb.slot, cb.arg, running)))
    /\ UNCHANGED <<running, ws, inbox, sent, chunk, reg, stops, stopRaised,
                   stoppedInReceive>>
    /\ UNCHANGED <<fixedVars, ids, outbox, asked>>

\* The awaited callback raises.
CallbackRaise ==
    /\ pc = "cb"
    /\ HandlerFault(cb.slot, cb.arg, cb.ret,
                    Append(trace, Ev("raise", cb.slot, cb.arg, running)))
    /\ UNCHANGED <<running, ws, inbox, sent, chunk, reg, stops, stopRaised,
                   stoppedInReceive>>
    /\ UNCHANGED <<fixedVars, ids, outbox, asked>>

StopLeavesSocketOpen(origin) ==
    /\ IF origin = "handler" THEN pc = "cb"
       ELSE pc \in {"accept", "cb", "receive", "done"}
    /\ running' = FALSE
    /\ stops' = IF stops = "never" THEN "once" ELSE "again"
    /\ stoppedInReceive' = (stoppedInReceive \/ pc = "receive")
    /\ UNCHANGED <<pc, ws, stopRaised, inbox, sent, chunk, cb, reg, trace, hist>>
    /\ UNCHANGED <<fixedVars, ids, outbox, asked, invoked>>

\* Lines 61-67: stop(), called by the callback in flight ("handler") or by
\* an external owner while the connection task is suspended or not running.
Stop(origin) ==
    /\ IF origin = "handler" THEN pc = "cb"
       ELSE pc \in {"accept", "cb", "receive", "done"}
    /\ running' = FALSE
    /\ ws' = "closed"
    /\ stopRaised' = (stopRaised \/ CloseFailureRaises(ws))
    /\ stops' = IF stops = "never" THEN "once" ELSE "again"
    /\ stoppedInReceive' = (stoppedInReceive \/ pc = "receive")
    /\ UNCHANGED <<pc, inbox, sent, chunk, cb, reg, trace, hist>>
    /\ UNCHANGED <<fixedVars, ids, outbox, asked, invoked>>

\* The peer sends one more frame. The connection task sees it at its next
\* receive, so the arrivals told apart are those while a callback of the
\* running connection is awaited and those that end a wait in receive_text.
PeerSend(k) ==
    /\ ws = "connected"
    /\ \/ pc = "cb" /\ cb.ret = "loop"
       \/ pc = "receive" /\ inbox = <<>>
    /\ sent < MaxFrames
    /\ sent' = sent + 1
    /\ chunk' = IF k = "media" THEN chunk + 1 ELSE chunk
    /\ inbox' = Append(inbox, [id |-> sent + 1, kind |-> k,
                               chunk |-> IF k = "media" THEN chunk + 1 ELSE 0])
    /\ UNCHANGED <<pc, running, ws, cb, reg, stops, stopRaised, stoppedInReceive,
                   trace, hist>>
    /\ UNCHANGED <<fixedVars, ids, outbox, asked, invoked>>

Next ==
    \/ Start
    \/ AcceptOk
    \/ AcceptFail
    \/ LoopCheck
    \/ ReceiveFrame
    \/ ReceiveError
    \/ ReceiveDisconnect
    \/ Finally
    \/ CallbackReturn
    \/ CallbackRaise
    \/ \E origin \in {"handler", "external"} : Stop(origin)
    \/ \E k \in WireKinds : PeerSend(k)

Spec == Init /\ [][Next]_vars

\* ------------------------------------------- connections with other peers
\* The steps of start() and stop() on a connection that gets text frames only.
Engine ==
    \/ Start
    \/ AcceptOk
    \/ AcceptFail
    \/ LoopCheck
    \/ ReceiveFrame
    \/ ReceiveDisconnect
    \/ Finally
    \/ CallbackReturn
    \/ CallbackRaise
    \/ \E origin \in {"handler", "external"} : Stop(origin)

\* A peer that sends media frames and the three malformed frames: text
\* that is not JSON, JSON without the event discriminator, and
\* {"event":"media"} without its media object.
MalformedWire == {"media", "badmedia", "notjson", "nodiscriminator"}

InitMalformed ==
    \E r \in {Slots, Slots \ {"error"}} :
        \E c \in WireConfigs(MalformedWire) : Fresh(r, c)

NextMalformed == Engine \/ \E k \in MalformedWire : PeerSend(k)

SpecMalformed == InitMalformed /\ [][NextMalformed]_vars

\* A second handler is registered for a slot before start() (as the two
\* on_disconnected handlers of examples/full_example/main.py:228-246).
Register(slot) ==
    /\ pc = "init"
    /\ "B" \notin handlers[slot]
    /\ Cardinality({s \in Slots : "B" \in handlers[s]}) < MaxOverwrites
    /\ handlers' = [handlers EXCEPT ![slot] = RegisterSlot(@, "B")]
    /\ reg' = reg \cup {slot}
    /\ UNCHANGED <<config, frame, decoded, ids, outbox, asked, invoked>>
    /\ UNCHANGED <<pc, running, ws, inbox, sent, chunk, cb, stops, stopRaised,
                   stoppedInReceive, trace, hist>>

RegistryWire == {"start", "media"}

InitRegistry ==
    \E r \in {Slots, {}} : \E c \in WireConfigs(RegistryWire) : Fresh(r, c)

NextRegistry ==
    \/ Engine
    \/ \E slot \in Slots : Register(slot)
    \/ \E k \in RegistryWire : PeerSend(k)

SpecRegistry == InitRegistry /\ [][NextRegistry]_vars

\* A peer that reports played checkpoints, with sequenceNumber written as a
\* numeric string or as an integer, between media frames.
PlayedWire == {"playedStream", "playedStreamInt", "media"}

InitPlayed ==
    \E r \in {Slots, Slots \ {"error"}} :
        \E c \in WireConfigs(PlayedWire) : Fresh(r, c)

NextPlayed == Engine \/ \E k \in PlayedWire : PeerSend(k)

SpecPlayed == InitPlayed /\ [][NextPlayed]_vars

\* ------------------------------------------------ the codec on its own
\* Any raw frame is handed to Decode, under either validation library.
InitDecode ==
    /\ frame \in Shapes
    /\ decoded = NotDecoded
    /\ \E c \in {c \in Configs : c.unknown = "drop"} : Idle(Slots, c)

DecodeFrame ==
    /\ pc = "init"
    /\ decoded = NotDecoded
    /\ decoded' = Parse(frame)
    /\ UNCHANGED <<config, handlers, frame, ids, outbox, asked, invoked>>
    /\ UNCHANGED <<pc, running, ws, inbox, sent, chunk, cb, reg, stops,
                   stopRaised, stoppedInReceive, trace, hist>>

NextDecode == DecodeFrame

SpecDecode == InitDecode /\ [][NextDecode]_vars

\* ------------------------------------------------ outbound helpers (4.3)
CheckpointNames == {"done", "mark"}

\* The outbound Checkpoint event (types.py:106-110).
CheckpointEvent(stream, name) == <<"Checkpoint", stream, name>>

\* Encode: the JSON text of an outbound event, by its fields.
Encode(e) ==
    IF e[1] = "Checkpoint"
    THEN [event |-> "checkpoint", streamId |-> e[2], name |-> e[3]]
    ELSE [event |-> "clearAudio", streamId |-> e[2], name |-> ""]

SendRawTwice(box, text) == Append(Append(box, text), text)

\* Lines 29-31: _send_raw hands the text to websocket.send_text.
SendRaw(box, text) == Append(box, text)

\* Accessors of the captured identifiers; "" is the absent value.
GetStreamId == ids.stream
GetCallId == ids.call
GetAccountId == ids.account

\* send_checkpoint(name), called by the handler in flight or by another
\* task of the application while the connection task waits for a frame.
SendCheckpoint(name) ==
    /\ pc \in {"cb", "receive"}
    /\ Len(asked) < MaxSends
    /\ asked' = Append(asked, [name |-> name, stream |-> GetStreamId])
    /\ outbox' = SendRaw(outbox, Encode(CheckpointEvent(GetStreamId, name)))
    /\ UNCHANGED <<fixedVars, ids, invoked>>
    /\ UNCHANGED <<pc, running, ws, inbox, sent, chunk, cb, reg, stops,
                   stopRaised, stoppedInReceive, trace, hist>>

\* A peer that sends start frames, with the same or with other identifiers,
\* and media frames.
StreamWire == {"start", "startOther", "media"}

InitStream ==
    \E r \in {Slots, {}} : \E c \in WireConfigs(StreamWire) : Fresh(r, c)

NextStream ==
    \/ Engine
    \/ \E name \in CheckpointNames : SendCheckpoint(name)
    \/ \E k \in StreamWire : PeerSend(k)

SpecStream == InitStream /\ [][NextStream]_vars

\* ------------------------------------------------------ reading the events
Idx == 1..Len(trace)
IsCall(i, slot) == trace[i].ev = "call" /\ trace[i].slot = slot
IsEnd(i) == trace[i].ev \in {"ret", "raise"}
IsEndOf(i, slot) == IsEnd(i) /\ trace[i].slot = slot
IsRead(i) == trace[i].ev = "read"
IsEventCall(i) == trace[i].ev = "call" /\ trace[i].slot \in EventKinds
IsEventRaise(i) == trace[i].ev = "raise" /\ trace[i].slot \in EventKinds
RECURSIVE SumCalls(_)
SumCalls(S) ==
    IF S = {} THEN 0
    ELSE LET k == CHOOSE x \in S : TRUE IN hist.calls[k] + SumCalls(S \ {k})
EventCalls == SumCalls(EventKinds)
Accepted == hist.accept = "ok"
AcceptFailed == hist.accept = "fail"
\* The on_error invocation that reports the fault raised at trace index i.
ErrorCallFor(i) ==
    Ev("call", "error", Exc(trace[i].slot, trace[i].arg[3]), trace[i].run)
FrameOf(a) == [kind |-> a[2], id |-> a[3], chunk |-> a[4]]
\* start() is inside its receive loop (between two iterations, blocked in
\* receive_text, or awaiting a callback that resumes the loop).
InLoop == pc \in {"loop", "receive"} \/ (pc = "cb" /\ cb.ret = "loop")

\* ------------------------------------------------------------------ claims
\* Every event passes through trace and two events at most are added in one
\* step, so a statement about neighbouring events that holds of trace in
\* every reachable state holds of the whole history.

\* C1: when accept succeeds and an on_connected handler is registered, it is
\* invoked exactly once, and it has completed before the first frame is read
\* or dispatched to an event handler.
C1_ConnectedOnceBeforeFrames ==
    "connected" \in reg =>
        /\ hist.calls["connected"] = (IF Accepted THEN 1 ELSE 0)
        /\ (hist.reads # <<>> \/ EventCalls > 0) => hist.ends["connected"] = 1

C1_Witness ==
    /\ "connected" \in reg
    /\ pc = "done"
    /\ EventCalls > 0

\* C2: once the receive loop was reached, on_disconnected (if registered) is
\* invoked at most once at any time and exactly once when start() has
\* returned, whether the loop ended by a disconnect or by stop(), and the
\* running flag is false at that invocation.
C2_DisconnectedOnceFlagCleared ==
    ("disconnected" \in reg /\ Accepted) =>
        /\ hist.calls["disconnected"] <= 1
        /\ pc \in {"done", "raised"} => hist.calls["disconnected"] = 1
        /\ \A i \in Idx : IsCall(i, "disconnected") => ~trace[i].run
        /\ hist.calls["disconnected"] > 0 => ~running

C2_Witness ==
    /\ "disconnected" \in reg
    /\ Accepted
    /\ pc = "done"
    /\ ~hist.disc
    /\ stops # "never"
    /\ hist.reads # <<>>

\* C3: when an event handler raises, on_error (if registered) is invoked
\* with that exception and the running flag as it was; the loop is not left
\* while the flag is set and no disconnect was reported; and a valid frame
\* that is read is dispatched to the handler of its kind.
C3_HandlerFaultLoopContinues ==
    /\ "error" \in reg =>
           \A i \in Idx : IsEventRaise(i) =>
               i < Len(trace) /\ trace[i + 1] = ErrorCallFor(i)
    /\ (hist.raised \cap EventKinds # {} /\ running /\ ~hist.disc) => InLoop
    /\ hist.raised \cap EventKinds # {} =>
           \A j \in Idx : (IsRead(j) /\ Decode(FrameOf(trace[j].arg)) \in reg) =>
               /\ j < Len(trace)
               /\ trace[j + 1] = Ev("call", Decode(FrameOf(trace[j].arg)),
                                    trace[j].arg, trace[j].run)

C3_Witness ==
    /\ "error" \in reg
    /\ running
    /\ hist.raised \cap EventKinds # {}
    /\ hist.ends["error"] > 0
    /\ trace[Len(trace)].ev = "call"
    /\ trace[Len(trace)].slot \in EventKinds
    /\ trace[Len(trace)].arg[3] = 2

\* C4: frames are read in arrival order, an event handler is only invoked
\* for the frame just read, the event before a read is never the invocation
\* of a callback (that callback has returned or raised in between), and
\* while a callback is in flight start() is suspended on it.
C4_InOrderOneAtATime ==
    /\ \A i \in 1..Len(hist.reads) : \A j \in (i + 1)..Len(hist.reads) :
           hist.reads[i] < hist.reads[j]
    /\ \A j \in Idx : IsEventCall(j) =>
           /\ hist.reads # <<>>
           /\ j > 1 => (IsRead(j - 1) /\ trace[j - 1].arg = trace[j].arg)
    /\ \A j \in Idx : (IsRead(j) /\ j > 1) => trace[j - 1].ev # "call"
    /\ cb # NoCb => pc = "cb"

C4_Witness ==
    /\ pc = "cb"
    /\ cb.slot \in EventKinds
    /\ cb.arg[3] = 1
    /\ inbox # <<>>
    /\ Head(inbox).kind \in EventKinds

IsMediaFrame(f) == f.kind = "media"

\* C5: with a media handler registered, the n-th invocation of the handler
\* carries chunk n, and every media frame the peer has sent is either still
\* queued in the transport or was handed to the handler exactly once.
C5_MediaOncePerFrameInOrder ==
    "media" \in reg =>
        /\ \A n \in 1..Len(hist.media) : hist.media[n] = n
        /\ Len(hist.media) + Len(SelectSeq(inbox, IsMediaFrame)) = chunk
        /\ Len(hist.media) = hist.calls["media"]

C5_Witness ==
    /\ "media" \in reg
    /\ Len(hist.media) >= 2
    /\ pc = "receive"

\* C6: a disconnect reported by the transport is never passed to on_error;
\* once it is reported the loop has ended, the next event is the invocation
\* of on_disconnected (if registered), and no frame is read or dispatched.
C6_DisconnectNotAnError ==
    /\ \A i \in Idx : IsCall(i, "error") => ~IsDisconnect(trace[i].arg)
    /\ \A i \in Idx : trace[i].ev = "disc" =>
           /\ i < Len(trace) => IsCall(i + 1, "disconnected")
           /\ (i = Len(trace) /\ "disconnected" \in reg) => pc = "finally"
    /\ hist.disc => ~InLoop

C6_Witness ==
    /\ hist.disc
    /\ pc = "done"
    /\ "error" \in reg
    /\ hist.calls["disconnected"] = 1
    /\ hist.raised \cap EventKinds # {}

\* C7: no stop() call raises to its caller, also when the socket is already
\* closed, and however often stop() is called on_disconnected (if
\* registered) is invoked at most once, and exactly once when start() has
\* returned.
C7_StopIdempotent ==
    /\ ~stopRaised
    /\ "disconnected" \in reg =>
           /\ hist.calls["disconnected"] <= 1
           /\ (stops = "again" /\ pc = "done") => hist.calls["disconnected"] = 1

C7_Witness ==
    /\ stops = "again"
    /\ pc = "done"
    /\ Accepted
    /\ ~hist.disc
    /\ hist.calls["disconnected"] = 1

\* C8: an event handler that was invoked returns or raises before any other
\* event of the connection, also when stop() is called meanwhile; and a
\* frame is read or dispatched with the running flag cleared only when the
\* stop() came while start() was blocked in receive_text, never after a
\* stop() that came while a handler was in flight.
C8_StopDoesNotCancel ==
    /\ \A i \in Idx : (IsEventCall(i) /\ i < Len(trace)) =>
           IsEndOf(i + 1, trace[i].slot) /\ trace[i + 1].arg = trace[i].arg
    /\ \A i \in Idx : (IsEventCall(i) /\ i = Len(trace)) =>
           pc = "cb" /\ cb.slot = trace[i].slot /\ cb.arg = trace[i].arg
    /\ \A j \in Idx : ((IsRead(j) \/ IsEventCall(j)) /\ ~trace[j].run) =>
           stoppedInReceive
    /\ (pc = "receive" /\ ~running) => stoppedInReceive

C8_Witness ==
    /\ pc = "finally"
    /\ inbox # <<>>
    /\ ~stoppedInReceive
    /\ \E i \in Idx : IsEventCall(i) /\ trace[i].run /\ i < Len(trace)
                        /\ ~trace[i + 1].run

\* C9: after a failed accept on_connected is never invoked, the receive
\* loop is never entered and no frame is read or dispatched.
C9_AcceptFailureFatal ==
    AcceptFailed =>
        /\ hist.calls["connected"] = 0
        /\ hist.reads = <<>>
        /\ EventCalls = 0
        /\ ~InLoop

C9_Witness ==
    /\ AcceptFailed
    /\ "connected" \in reg
    /\ pc = "done"

\* C10: no exception of an application handler leaves start(): a fault of
\* an event handler, on_connected or on_disconnected is handed to on_error
\* (if registered), a fault of on_error is dropped, and start() goes on to
\* where the handler would have returned.
C10_NoHandlerFaultEscapes ==
    /\ pc # "raised"
    /\ "error" \in reg =>
           \A i \in Idx : (trace[i].ev = "raise" /\ trace[i].slot # "error") =>
               i < Len(trace) /\ trace[i + 1] = ErrorCallFor(i)
    /\ (trace # <<>> /\ trace[Len(trace)].ev = "raise") =>
           pc \in {"loop", "receive", "finally", "done"}

C10_Witness ==
    /\ pc = "done"
    /\ {"connected", "media", "error", "disconnected"} \subseteq hist.raised

\* The frame read at trace index j does not decode.
IsParseErrorRead(j) == IsRead(j) /\ Decode(FrameOf(trace[j].arg)) = "ParseError"
\* The on_error invocation for the parse error of the frame read at index j.
ParseErrorCallFor(j) ==
    Ev("call", "error", Exc("ParseError", trace[j].arg[3]), trace[j].run)
\* The event at index i invokes an event handler or on_error for frame n.
IsHandlerCallFor(i, n) ==
    /\ trace[i].ev = "call"
    /\ trace[i].slot \in EventKinds \cup {"error"}
    /\ trace[i].arg[3] = n

\* C11: a frame that is not JSON, lacks the discriminator or lacks a required
\* field is handed to on_error (if registered) as a parse error and to no
\* event handler; nothing is raised out of start(); when on_error is done
\* (or is not registered) the loop goes on while the running flag is set,
\* and a valid frame that is read is dispatched to the handler of its kind.
C11_MalformedFrameNonFatal ==
    /\ pc # "raised"
    /\ \A j \in Idx : IsParseErrorRead(j) =>
           IF "error" \in reg
           THEN j < Len(trace) /\ trace[j + 1] = ParseErrorCallFor(j)
           ELSE /\ j < Len(trace) => ~IsHandlerCallFor(j + 1, trace[j].arg[3])
                /\ (j = Len(trace) /\ running) => pc \in {"loop", "receive"}
    /\ \A i \in Idx :
           (/\ i = Len(trace)
            /\ IsEndOf(i, "error")
            /\ trace[i].arg[2] = "ParseError"
            /\ running) => pc \in {"loop", "receive"}
    /\ \A j \in Idx : (IsRead(j) /\ Decode(FrameOf(trace[j].arg)) \in reg) =>
           /\ j < Len(trace)
           /\ trace[j + 1] = Ev("call", Decode(FrameOf(trace[j].arg)),
                                trace[j].arg, trace[j].run)

C11_Witness ==
    /\ Len(trace) = 3
    /\ IsEndOf(1, "error")
    /\ trace[1].arg[2] = "ParseError"
    /\ IsRead(2)
    /\ IsCall(3, "media")

\* The frame read at trace index j carries an unmatched discriminator.
IsUnknownRead(j) == IsRead(j) /\ Decode(FrameOf(trace[j].arg)) = "unknown"
UnknownCallFor(j) ==
    Ev("call", "error", Exc("UnknownEventKind", trace[j].arg[3]), trace[j].run)

\* C12: under either policy a frame with an unmatched discriminator is
\* handed to no event handler; it is dropped without any callback, or (policy
\* "report", on_error registered) handed to on_error; nothing is raised out
\* of start(); afterwards start() is still in its loop while the running flag
\* is set, and a valid frame that is read is dispatched.
C12_UnknownKindKeepsConnection ==
    /\ pc # "raised"
    /\ \A j \in Idx : IsUnknownRead(j) =>
           IF config.unknown = "report" /\ "error" \in reg
           THEN j < Len(trace) /\ trace[j + 1] = UnknownCallFor(j)
           ELSE /\ j < Len(trace) => ~IsHandlerCallFor(j + 1, trace[j].arg[3])
                /\ (j = Len(trace) /\ running) => pc \in {"loop", "receive"}
    /\ \A i \in Idx :
           (/\ i = Len(trace)
            /\ IsEndOf(i, "error")
            /\ trace[i].arg[2] = "UnknownEventKind"
            /\ running) => pc \in {"loop", "receive"}
    /\ \A j \in Idx : (IsRead(j) /\ j > 1 /\ IsUnknownRead(j - 1)) =>
           (Decode(FrameOf(trace[j].arg)) \in reg =>
               /\ j < Len(trace)
               /\ IsCall(j + 1, Decode(FrameOf(trace[j].arg))))

C12_Witness ==
    /\ Len(trace) = 3
    /\ IsUnknownRead(1)
    /\ IsRead(2)
    /\ IsCall(3, "media")
    /\ running

\* C13: with no on_error handler registered no on_error invocation happens,
\* nothing is raised out of start(), and after a fault (a frame that does not
\* decode, or a handler that raised) start() is where it would be had an
\* on_error handler returned: in the loop while the running flag is set
\* after a frame or on_connected, finished after on_disconnected.
C13_FaultsAbsorbedWithoutOnError ==
    "error" \notin reg =>
        /\ hist.calls["error"] = 0
        /\ pc # "raised"
        /\ \A i \in Idx :
               (i = Len(trace) /\ (IsParseErrorRead(i) \/ trace[i].ev = "raise")) =>
                   IF trace[i].slot = "disconnected" THEN pc = "done"
                   ELSE /\ pc \in {"loop", "receive", "finally", "done"}
                        /\ running => pc \in {"loop", "receive"}
        /\ \A i \in Idx :
               (i < Len(trace) /\ (IsParseErrorRead(i) \/ IsEventRaise(i))) =>
                   trace[i + 1].ev \in {"read", "disc"}
                       \/ IsCall(i + 1, "disconnected")

C13_Witness ==
    /\ "error" \notin reg
    /\ Len(trace) = 3
    /\ IsEventRaise(2)
    /\ IsParseErrorRead(3)
    /\ pc = "receive"
    /\ running

\* The frame read at trace index j decodes to a kind without a handler.
IsUnhandledRead(j) ==
    /\ IsRead(j)
    /\ Decode(FrameOf(trace[j].arg)) \in EventKinds \ reg

\* C14: a frame that decodes to a kind without a handler leads to no
\* invocation of any event handler or of on_error for it; the running flag
\* and the socket stay as they were; start() is in its loop afterwards while
\* the flag is set, and the next frame read is dispatched.
C14_UnhandledKindNoOp ==
    /\ \A j \in Idx : IsUnhandledRead(j) =>
           /\ j < Len(trace) => ~IsHandlerCallFor(j + 1, trace[j].arg[3])
           /\ (j = Len(trace) /\ running) => pc \in {"loop", "receive"}
           /\ (j = Len(trace) /\ trace[j].run /\ stops = "never") =>
                  running /\ ws = "connected"
    /\ \A j \in Idx : (IsRead(j) /\ j > 1 /\ IsUnhandledRead(j - 1)) =>
           (Decode(FrameOf(trace[j].arg)) \in reg =>
               /\ j < Len(trace)
               /\ IsCall(j + 1, Decode(FrameOf(trace[j].arg))))

C14_Witness ==
    /\ Len(trace) = 3
    /\ IsUnhandledRead(1)
    /\ IsRead(2)
    /\ IsCall(3, "media")
    /\ "error" \in reg
    /\ running

\* C15: every slot holds at most one handler; in a slot where handler B was
\* registered (after handler A, or into an empty slot) handler A is never
\* invoked, and B is the handler invoked whenever the slot was invoked; a
\* handler is only ever invoked from the slot that holds it.
C15_SingleSlotOverwrite ==
    /\ \A s \in Slots : Cardinality(handlers[s]) <= 1
    /\ \A s \in Slots : "B" \in handlers[s] =>
           /\ <<s, "A">> \notin invoked
           /\ hist.calls[s] > 0 <=> <<s, "B">> \in invoked
    /\ \A p \in invoked : p[2] \in handlers[p[1]]
    /\ \A s \in Slots : hist.calls[s] > 0 => \E h \in handlers[s] : <<s, h>> \in invoked

C15_Witness ==
    /\ handlers["media"] = {"B"}
    /\ handlers["start"] = {"A"}
    /\ invoked = {<<"connected", "A">>, <<"start", "A">>, <<"media", "B">>}
    /\ hist.calls["media"] = 1

\* C16: every send_checkpoint call hands exactly one text to the transport;
\* a call made once a start frame was processed produces the checkpoint frame
\* with the stream id of that start frame and the name given; and once a
\* call carried a stream id every later call carries the same one.
C16_CheckpointCarriesStreamId ==
    /\ Len(outbox) = Len(asked)
    /\ \A n \in 1..Len(asked) :
           /\ outbox[n] = [event |-> "checkpoint", streamId |-> asked[n].stream,
                           name |-> asked[n].name]
           /\ asked[n].stream # "" =>
                  /\ hist.starts # <<>>
                  /\ asked[n].stream = StartIds([kind |-> hist.starts[1]]).stream
           /\ \A m \in 1..n : asked[m].stream # "" => asked[n].stream = asked[m].stream
    /\ hist.starts = <<>> => \A n \in 1..Len(asked) : asked[n].stream = ""

C16_Witness ==
    /\ hist.starts = <<"start", "startOther">>
    /\ asked = <<[name |-> "done", stream |-> "S1"]>>
    /\ outbox = <<[event |-> "checkpoint", streamId |-> "S1", name |-> "done"]>>
    /\ pc = "cb"
    /\ cb.arg[3] = 2

\* What the three accessors return.
Accessors == [stream |-> GetStreamId, call |-> GetCallId, account |-> GetAccountId]

\* C17: the three accessors return the absent value as long as no start
\* frame was processed, and from then on (already inside the on_start
\* handler of that frame) the streamId, callId and accountId of the first
\* start frame processed.
C17_AccessorsFollowStart ==
    /\ hist.starts = <<>> => Accessors = NoIds
    /\ hist.starts # <<>> => Accessors = StartIds([kind |-> hist.starts[1]])

C17_Witness ==
    /\ pc = "cb"
    /\ cb.slot = "start"
    /\ cb.arg[3] = 2
    /\ hist.reads = <<1, 2>>
    /\ hist.starts = <<"startOther">>
    /\ Accessors = [stream |-> "S2", call |-> "C2", account |-> "A2"]

IsPlayedStreamRead(j) ==
    IsRead(j) /\ trace[j].arg[2] \in {"playedStream", "playedStreamInt"}

\* C19: a playedStream frame, with sequenceNumber written as a numeric
\* string or as an integer, is never reported to on_error as a parse error,
\* and with a played-stream handler registered the event is dispatched to it.
C19_PlayedStreamBothForms ==
    \A j \in Idx : IsPlayedStreamRead(j) =>
        /\ Decode(FrameOf(trace[j].arg)) = "playedStream"
        /\ j < Len(trace) => trace[j + 1] # ParseErrorCallFor(j)
        /\ "playedStream" \in reg =>
               /\ j < Len(trace)
               /\ trace[j + 1] = Ev("call", "playedStream", trace[j].arg, trace[j].run)

\* What the frame format of spec section 6 asks of sequenceNumber: an integer,
\* or for playedStream an integer or a string.
SeqAsSpecified(k, q) ==
    IF k = "playedStream" THEN q # "absent" ELSE q = "int"

\* C20: Decode gives ParseError exactly for text that is not JSON, a missing
\* discriminator, or a known kind with a required field absent or of the
\* wrong type; a well-formed frame of a known kind gives the event of that
\* kind with sequenceNumber as it was written; an unmatched discriminator
\* gives the unknown-event signal.
C20_DecodeContract ==
    decoded # NotDecoded =>
        /\ decoded = ParseError <=>
               \/ ~frame.json
               \/ frame.event = "absent"
               \/ /\ frame.event \in EventKinds
                  /\ frame.body # "ok" \/ ~SeqAsSpecified(frame.event, frame.seq)
        /\ (/\ frame.json
            /\ frame.event \in EventKinds
            /\ frame.body = "ok"
            /\ SeqAsSpecified(frame.event, frame.seq)) =>
               decoded = Event(frame.event, frame.seq)
        /\ (frame.json /\ frame.event = "other") => decoded = UnknownEvent

RECURSIVE SumEnds(_)
SumEnds(S) ==
    IF S = {} THEN 0
    ELSE LET k == CHOOSE x \in S : TRUE IN hist.ends[k] + SumEnds(S \ {k})
\* Handler invocations that have begun and not yet returned or raised.
InFlight(S) == SumCalls(S) - SumEnds(S)

\* C21: of all handler invocations begun by the engine at most one has not
\* yet returned or raised, so two event handlers never overlap; one is in
\* flight exactly while start() is suspended on it.
C21_OneHandlerInFlight ==
    /\ InFlight(Slots) \in {0, 1}
    /\ InFlight(EventKinds) \in {0, 1}
    /\ InFlight(Slots) = 1 <=> pc = "cb"
    /\ \A s \in Slots : hist.calls[s] - hist.ends[s] = 1 <=> (pc = "cb" /\ cb.slot = s)

C21_Witness ==
    /\ pc = "cb"
    /\ hist.calls["media"] = 2
    /\ hist.ends["media"] = 1
    /\ InFlight(EventKinds) = 1

\* C22: once the receive loop was left a close of the transport has been
\* attempted before on_disconnected is invoked (the finally clause is
\* reached, and on_disconnected is invoked, with the socket closed from the
\* application side), and no close failure is raised.
C22_CloseBeforeDisconnected ==
    /\ (Accepted /\ pc = "finally") => ws = "closed"
    /\ (Accepted /\ hist.calls["disconnected"] > 0) => ws = "closed"
    /\ ~stopRaised

\* ------------------------------------------------ start() called once more
\* Line 38 again: nothing in start() looks at what an earlier call left, so
\* a call on an instance whose start() has returned sets the flag and goes
\* on to accept() like the first one.
StartAgain ==
    /\ pc = "done"
    /\ hist.runs < MaxRestarts
    /\ pc' = "accept"
    /\ running' = TRUE
    /\ hist' = [hist EXCEPT !.runs = @ + 1]
    /\ UNCHANGED <<ws, inbox, sent, chunk, cb, reg, stops, stopRaised,
                   stoppedInReceive, trace>>
    /\ UNCHANGED <<fixedVars, ids, outbox, asked, invoked>>

RestartWire == {"media"}

InitRestart == \E r \in {Slots, {}} : \E c \in WireConfigs(RestartWire) : Fresh(r, c)

NextRestart ==
    \/ Engine
    \/ StartAgain
    \/ \E k \in RestartWire : PeerSend(k)

SpecRestart == InitRestart /\ [][NextRestart]_vars

\* The lifecycle state of 4.3 as start() goes through it: RUNNING from the
\* successful accept to the exit of the loop, DISCONNECTED from there on and
\* on the path of a failed accept.
LifecycleState ==
    CASE pc = "init" -> "INIT"
      [] pc = "accept" -> "ACCEPTING"
      [] pc \in {"loop", "receive"} \/ (pc = "cb" /\ cb.ret = "loop") -> "RUNNING"
      [] OTHER -> "DISCONNECTED"

Rank(st) ==
    CASE st = "INIT" -> 0
      [] st = "ACCEPTING" -> 1
      [] st = "RUNNING" -> 2
      [] st = "DISCONNECTED" -> 3

\* C23: no step takes the lifecycle state backwards, none leaves
\* DISCONNECTED (stop() and a later start() included), and RUNNING is
\* entered from ACCEPTING by a successful accept only.
C23_LifecycleAdvances ==
    [][/\ Rank(LifecycleState') >= Rank(LifecycleState)
       /\ LifecycleState = "DISCONNECTED" => LifecycleState' = "DISCONNECTED"
       /\ (LifecycleState' = "RUNNING" /\ LifecycleState # "RUNNING")
             => (LifecycleState = "ACCEPTING" /\ hist'.accept = "ok"
                 /\ ws' = "connected")]_vars

\* C24: a fault raised by on_connected is handed to on_error (when one is
\* registered) and start() goes on to the receive loop: after such a fault
\* the connection ends by a disconnect of the transport or a stop() only,
\* and nothing escapes start().
C24_ConnectedFaultContained ==
    /\ \A i \in Idx :
          (trace[i].ev = "raise" /\ trace[i].slot = "connected") =>
             IF "error" \in reg
             THEN i < Len(trace) /\ trace[i + 1] = ErrorCallFor(i)
             ELSE i = Len(trace) => (LifecycleState = "RUNNING" \/ stops # "never")
    /\ \A i \in Idx :
          (/\ i = Len(trace) /\ i > 2 /\ IsEnd(i) /\ trace[i].slot = "error"
           /\ trace[i - 2].ev = "raise" /\ trace[i - 2].slot = "connected")
             => (LifecycleState = "RUNNING" \/ stops # "never")
    /\ "connected" \in hist.raised =>
          /\ pc # "raised"
          /\ LifecycleState = "DISCONNECTED" => (hist.disc \/ stops # "never")
C24_Witness ==
    /\ "connected" \in hist.raised
    /\ hist.calls["error"] = 1
    /\ hist.calls["media"] = 1
    /\ pc = "cb" /\ cb.slot = "media"

\* ------------------------------------- a peer whose numbering goes backwards
SequenceWire == {"media", "mediaBehind"}

InitSequence ==
    \E r \in {Slots, Slots \ {"media"}} :
        \E c \in WireConfigs(SequenceWire) : Fresh(r, c)

NextSequence == Engine \/ \E k \in SequenceWire : PeerSend(k)

SpecSequence == InitSequence /\ [][NextSequence]_vars

\* The read at trace index i is the ReadPos(i)-th read of the connection.
ReadPos(i) == Len(hist.seqs) - Cardinality({j \in Idx : j > i /\ IsRead(j)})
\* The frame read at trace index i carries a sequenceNumber lower than that
\* of a frame read before it.
ReadBehind(i) ==
    /\ IsRead(i)
    /\ \E j \in 1..(ReadPos(i) - 1) : hist.seqs[j] > hist.seqs[ReadPos(i)]

\* C25: a valid frame whose sequenceNumber is lower than that of an earlier
\* frame is dispatched like any other (its handler, when registered, is
\* invoked with it next, and nothing is reported to on_error for it), and
\* the loop is left by a disconnect of the transport or a stop() only.
C25_SequenceNotEnforced ==
    /\ \A i \in Idx :
          ReadBehind(i) =>
             IF "media" \in reg
             THEN /\ i < Len(trace)
                  /\ trace[i + 1] = Ev("call", "media", trace[i].arg, trace[i].run)
             ELSE /\ i < Len(trace) => ~IsCall(i + 1, "error")
                  /\ i = Len(trace) => pc \in {"loop", "receive", "finally"}
    /\ (Accepted /\ LifecycleState = "DISCONNECTED")
          => (hist.disc \/ stops # "never")
    /\ hist.calls["error"] > 0 => (hist.raised # {} \/ AcceptFailed)
C25_Witness ==
    /\ hist.seqs = <<1, 0>>
    /\ pc = "cb" /\ cb.slot = "media" /\ cb.arg[2] = "mediaBehind"
    /\ trace[Len(trace)] = Ev("call", "media", cb.arg, TRUE)
    /\ running /\ ws = "connected" /\ LifecycleState = "RUNNING"

\* C26: no event handler is invoked before on_connected has ended, and once
\* on_disconnected has been invoked no other callback is: whatever handler
\* is in flight from then on is on_disconnected itself.
C26_Bracketed ==
    /\ (EventCalls > 0 /\ "connected" \in reg) => hist.ends["connected"] >= 1
    /\ (hist.calls["disconnected"] > 0 /\ pc = "cb") => cb.slot = "disconnected"

\* C26, amended: as above, but for the on_error invocation that reports a
\* fault raised by on_disconnected itself; it is the one callback that can
\* follow on_disconnected.
C26_BracketedButFault ==
    /\ (EventCalls > 0 /\ "connected" \in reg) => hist.ends["connected"] >= 1
    /\ (hist.calls["disconnected"] > 0 /\ pc = "cb") =>
          \/ cb.slot = "disconnected"
          \/ /\ cb.slot = "error"
             /\ cb.arg = Exc("disconnected", 0)
             /\ "disconnected" \in hist.raised
             /\ trace[Len(trace)] = Ev("call", "error", cb.arg, FALSE)
             /\ trace[Len(trace) - 1] = Ev("raise", "disconnected", NoArg, FALSE)
C26_Witness ==
    /\ pc = "cb" /\ cb.slot = "error" /\ cb.arg = Exc("disconnected", 0)
    /\ hist.ends["connected"] = 1
    /\ hist.calls["media"] = 1 /\ hist.ends["media"] = 1

\* C27: on_disconnected is invoked on an accepted connection only: after a
\* failed accept the failure is reported to on_error (when one is
\* registered) and on_disconnected is never invoked.
C27_DisconnectedOnlyAfterConnected ==
    /\ hist.calls["disconnected"] > 0 => Accepted
    /\ (hist.calls["disconnected"] > 0 /\ "connected" \in reg)
          => hist.calls["connected"] >= 1
    /\ (AcceptFailed /\ "error" \in reg) => hist.calls["error"] >= 1

\* ------------------------------------------- the connection task, scheduled
LiveWire == {"media"}

InitLive == \E r \in {Slots, {}} : \E c \in WireConfigs(LiveWire) : Fresh(r, c)

NextLive == Engine \/ \E k \in LiveWire : PeerSend(k)

\* Line 48 after line 65: a receive_text() that waits on a socket the
\* application has closed is woken with WebSocketDisconnect.
ReceiveDisconnectAfterClose == ws = "closed" /\ ReceiveDisconnect

\* The event loop runs the connection task whenever it can go on: accept()
\* comes back, the loop condition is evaluated, a frame that has arrived is
\* read, the finally clause runs; every awaited handler ends. A peer that
\* stays silent and connected is allowed: only a socket closed by stop()
\* is certain to wake the receive.
Fairness ==
    /\ WF_vars(AcceptOk \/ AcceptFail)
    /\ WF_vars(LoopCheck)
    /\ WF_vars(ReceiveFrame)
    /\ WF_vars(ReceiveDisconnectAfterClose)
    /\ WF_vars(Finally)
    /\ WF_vars(CallbackReturn \/ CallbackRaise)

SpecLive == InitLive /\ [][NextLive]_vars /\ Fairness

\* start() has returned: flag cleared, on_disconnected (if registered)
\* invoked and ended.
Disconnected ==
    /\ pc = "done"
    /\ ~running
    /\ "disconnected" \in reg =>
          (hist.calls["disconnected"] >= 1 /\ hist.ends["disconnected"] >= 1)

\* C28: once the transport has reported a disconnect or stop() has been
\* called (by a handler, or by an external owner while start() waits in
\* receive_text), start() eventually returns with the flag cleared and
\* on_disconnected invoked.
C28_EventuallyDisconnected ==
    (pc # "init" /\ (hist.disc \/ stops # "never")) ~> Disconnected
C28_Witness ==
    /\ Disconnected
    /\ Accepted
    /\ stoppedInReceive
    /\ hist.calls["disconnected"] = 1

====
